---- MODULE Spec2Model ----
(***************************************************************************)
(* Model of the batch job orchestrator of the background remover:          *)
(* app/services/batch_processor.py (class BatchProcessor).                 *)
(*                                                                         *)
(* Threads of the program:                                                 *)
(*   - request threads calling process_batch (one per submitted batch),    *)
(*   - one supervising thread per batch (process_files_parallel),          *)
(*   - pool threads running process_single_image, one per item,            *)
(*   - request threads calling get_batch_status,                           *)
(*   - callers of cleanup_old_batches.                                     *)
(* update_batch_progress takes no lock, so every access of a worker to the *)
(* shared job record is a step of its own: the interpreter may switch      *)
(* threads between the read and the write of job['processed_files'] += 1.  *)
(* A job record is a Python dict object: batch_jobs maps an id to the      *)
(* object, and a thread that has looked the object up keeps its reference  *)
(* when the id leaves batch_jobs.  Object b is the record created by the   *)
(* b-th process_batch call.                                                *)
(***************************************************************************)
EXTENDS Integers, Sequences, FiniteSets, TLC

\* ---------------------------------------------------------------- bounds
MaxFiles == 3       \* items of the batch, one racing batch (Spec)
MaxPollFiles == 2   \* items of the batch, one polled batch (SpecPoll)
MaxBatches == 2     \* process_batch calls (SpecLife)
MaxItems == 1       \* items of one batch (SpecLife)
MaxOps == 4         \* events of the environment (SpecLife)
MaxPolls == 2       \* get_batch_status calls
MaxSweeps == 1      \* cleanup_old_batches calls
MaxTime == 1        \* largest clock reading
MaxFailures == 1    \* failures of the collaborators (file read, paths, transform)
MaxPoolFiles == 5   \* items of the batch, one batch larger than the pool (SpecPool)
MaxOverlap == 2     \* cleanup_old_batches calls running at the same time (SpecSweep)
MaxLate == 2        \* largest clock reading when time goes by between calls (SpecSweep)
MaxCallers == 3     \* threads calling get_model (SpecModel)
MaxUpload == 2      \* files of a batch_upload request (SpecUpload)
MaxHeader == 4      \* pieces of an Authorization header value (SpecAuth)
MaxToken == 2       \* characters of API_BEARER_TOKEN (SpecAuth)

\* ------------------------------------------------------ program constants
MAX_BATCH_WORKERS == 4

Absent == 0 - 1     \* a key the dict does not hold (end_time, total_time)

Batches == 1..MaxBatches

\* the threads that call cleanup_old_batches
Sweepers == 1..MaxOverlap

VARIABLES
    batch_counter,  \* self.batch_counter
    batch_jobs,     \* self.batch_jobs: the entries [key, val] of the dict, in
                    \* insertion order; val is the index of the job object
    job,            \* the job objects (dicts), by object index
    now,            \* the clock: no reading of time.time() lies before it
    req,            \* the process_batch calls, by batch
    sup,            \* the supervising threads, by batch
    wk,             \* the pool tasks (process_single_image), by <<batch, item>>
    nfail,          \* failures of the collaborators so far
    poll,           \* the get_batch_status call in progress
    polled,         \* what the get_batch_status calls returned, in order
    cl,             \* the cleanup_old_batches call in progress, by calling thread
    nsweep,         \* cleanup_old_batches calls so far
    http,           \* the request a route handler serves, and its response
    model_cache,    \* BackgroundRemoverService.model_cache
    model_lock,     \* the thread that holds model_lock (0: free)
    gm,             \* the get_model calls, by calling thread
    loads           \* the calls of the model loader bg.get_model so far

vars == <<batch_counter, batch_jobs, job, now, req, sup, wk, nfail, poll, polled, cl, nsweep,
          http, model_cache, model_lock, gm, loads>>
web == <<http, model_cache, model_lock, gm, loads>>
client == <<poll, polled, cl, nsweep>>

\* ------------------------------------------------------------ pure helpers
Min(a, b) == IF a <= b THEN a ELSE b

\* the sequences of up to n elements of S
SeqsUpTo(S, n) == UNION {[1..k -> S] : k \in 0..n}

RECURSIVE Digits(_)
\* str(n) of a non-negative integer, as its sequence of decimal digits
Digits(n) == IF n < 10 THEN <<n>> ELSE Digits(n \div 10) \o <<n % 10>>

\* the id is made of the clock reading alone
TimestampId(counter, t) == <<"batch_">> \o Digits(t)

\* f"batch_{counter}_{int(time.time())}"
FormatBatchId(counter, t) == <<"batch_">> \o Digits(counter) \o <<"_">> \o Digits(t)

\* (processed_files / total_files) * 100, kept as the exact fraction it
\* rounds: the float is a monotone function of it
Progress(processed, total) == [num |-> processed * 100, den |-> total]

ProgressLeq(p, q) == p.num * q.den <= q.num * p.den

\* the clock: a reading never lies before an earlier one
TimeNow == {now} \cup (now..MaxTime)

EmptyDict == [k \in {} |-> 0]

DictSet(d, k, v) == [x \in DOMAIN d \cup {k} |-> IF x = k THEN v ELSE d[x]]

\* self.batch_jobs, an insertion-ordered dict
Keys(d) == {d[i].key : i \in DOMAIN d}
Has(d, k) == k \in Keys(d)
\* the oldest record of the dict is taken, whatever the key
LookupOldest(d, k) == d[1].val
Lookup(d, k) == d[CHOOSE i \in DOMAIN d : d[i].key = k].val
Store(d, k, v) ==
    IF Has(d, k)
    THEN [i \in DOMAIN d |-> IF d[i].key = k THEN [key |-> k, val |-> v] ELSE d[i]]
    ELSE Append(d, [key |-> k, val |-> v])
Delete(d, k) == SelectSeq(d, LAMBDA e : e.key # k)

\* the record counts one item more than the request holds
OvercountedJob(total_files, t) ==
    [ total_files |-> total_files + 1,
      processed_files |-> 0,
      results |-> <<>>,
      errors |-> <<>>,
      status |-> "processing",
      start_time |-> t,
      progress |-> [num |-> 0, den |-> 1],
      individual_progress |-> EmptyDict,
      end_time |-> Absent,
      total_time |-> Absent ]

\* the dict literal of create_batch_job
NewJob(total_files, t) ==
    [ total_files |-> total_files,
      processed_files |-> 0,
      results |-> <<>>,
      errors |-> <<>>,
      status |-> "processing",
      start_time |-> t,
      progress |-> [num |-> 0, den |-> 1],
      individual_progress |-> EmptyDict,
      end_time |-> Absent,
      total_time |-> Absent ]

NoJob == [ total_files |-> Absent ]

\* a pool task that was not submitted
NoTask == [line |-> "queued", upc |-> "-", job |-> 0, tmp |-> 0, err |-> "", upload |-> FALSE]

\* the files of a request: distinct names, FileStorage objects
Name(i) == "img" \o ToString(i) \o ".png"
DistinctFiles(n) == [i \in 1..n |-> [filename |-> Name(i), mock |-> FALSE]]

\* the files of a request that all carry the name of the first one
SameNameFiles(n) == [i \in 1..n |-> [filename |-> Name(1), mock |-> FALSE]]

\* a filename that is no string but an unhashable object (a list): it cannot
\* be a key of individual_progress
UnhashableName == "<list>"

\* files whose filename is unhashable, their bytes loaded (_data)
UnhashableFiles(n) == [i \in 1..n |-> [filename |-> UnhashableName, mock |-> TRUE]]

NoRequest == [pc |-> "idle", files |-> <<>>, batch_id |-> <<>>]
NoThread == [pc |-> "none", next |-> 0]

Files(b) == req[b].files
Filename(w) == Files(w[1])[w[2]].filename
BatchId(b) == req[b].batch_id

\* ------------------------------------------------- update_batch_progress
\* The arguments of the update_batch_progress call made at a line of
\* process_single_image.
CallStatus(line) ==
    IF line = "L128" THEN "completed" ELSE IF line = "L134" THEN "error" ELSE "processing"

\* the failure report passes the value of the success report
CopiedProgress(line) ==
    CASE line = "L80" -> 10
      [] line = "L90" -> 20
      [] line = "L97" -> 30
      [] line = "L107" -> 50
      [] line = "L118" -> 80
      [] line = "L121" -> 90
      [] line = "L128" -> 100
      [] line = "L134" -> 100

\* the values of lines 107 and 118 are exchanged
SwappedProgress(line) ==
    CASE line = "L80" -> 10
      [] line = "L90" -> 20
      [] line = "L97" -> 30
      [] line = "L107" -> 80
      [] line = "L118" -> 50
      [] line = "L121" -> 90
      [] line = "L128" -> 100
      [] line = "L134" -> 0

\* the success report passes a value above 100
OverfullProgress(line) ==
    CASE line = "L80" -> 10
      [] line = "L90" -> 20
      [] line = "L97" -> 30
      [] line = "L107" -> 50
      [] line = "L118" -> 80
      [] line = "L121" -> 90
      [] line = "L128" -> 110
      [] line = "L134" -> 0

CallProgress(line) ==
    CASE line = "L80" -> 10
      [] line = "L90" -> 20
      [] line = "L97" -> 30
      [] line = "L107" -> 50
      [] line = "L118" -> 80
      [] line = "L121" -> 90
      [] line = "L128" -> 100
      [] line = "L134" -> 0

\* `if result:` : the result dict of process_image is not empty
ResultTruthy(w) == wk[w].line = "L128"

\* `if error:` : error is None, or str(e), which may be the empty string
ErrorTruthy(w) == wk[w].line = "L134" /\ wk[w].err # ""

IsTerminal(status) == status \in {"completed", "error"}

\* process_single_image reaches the update_batch_progress call of `line`
\* (the locals job and tmp of the call before are dead)
At(w, line) == [wk[w] EXCEPT !.line = line, !.upc = "43", !.job = 0, !.tmp = 0]

\* the except clause of process_single_image is entered with exception e
Except(w, e, upload) ==
    [wk[w] EXCEPT !.line = "L134", !.upc = "43", !.job = 0, !.tmp = 0, !.err = e, !.upload = upload]

CanFail == nfail < MaxFailures

\* What process_single_image does after the update_batch_progress call of
\* wk[w].line returned, up to its next call: the next task state and the
\* number of failures of the collaborators.
Outcomes(w) ==
    LET r == wk[w] IN
    CASE r.line = "L80" ->   \* lines 83-87
            {[rec |-> At(w, "L90"), fail |-> 0]}
            \cup (IF CanFail THEN {[rec |-> Except(w, "Invalid file path", FALSE), fail |-> 1]} ELSE {})
      [] r.line = "L90" ->   \* lines 93-94
            {[rec |-> [At(w, "L97") EXCEPT !.upload = TRUE], fail |-> 0]}
            \cup (IF CanFail THEN {[rec |-> Except(w, "write failed", u), fail |-> 1] : u \in BOOLEAN} ELSE {})
      [] r.line = "L97" ->   \* lines 100-104
            {[rec |-> At(w, "L107"), fail |-> 0]}
            \cup (IF CanFail THEN {[rec |-> Except(w, "Invalid output path", r.upload), fail |-> 1]} ELSE {})
      [] r.line = "L107" ->  \* lines 110-115
            {[rec |-> At(w, "L118"), fail |-> 0]}
            \cup (IF CanFail THEN {[rec |-> Except(w, e, r.upload), fail |-> 1] : e \in {"", "transform failed"}} ELSE {})
      [] r.line = "L118" -> {[rec |-> At(w, "L121"), fail |-> 0]}
      [] r.line = "L121" -> {[rec |-> At(w, "L128"), fail |-> 0]}   \* lines 124-125
      [] r.line = "L128" ->  \* line 130
            {[rec |-> [NoTask EXCEPT !.line = "returned", !.upload = r.upload], fail |-> 0]}
      [] r.line = "L134" ->  \* lines 137-140
            {[rec |-> [NoTask EXCEPT !.line = "raised", !.err = r.err], fail |-> 0]}

\* update_batch_progress returns to process_single_image
Return(w) ==
    \E o \in Outcomes(w) :
        /\ wk' = [wk EXCEPT ![w] = o.rec]
        /\ nfail' = nfail + o.fail

\* an exception leaves update_batch_progress: inside the try block it is
\* caught by the except clause, inside the except clause it leaves the task
Raise(w, e) ==
    /\ wk' = [wk EXCEPT ![w] =
                IF wk[w].line = "L134"
                THEN [NoTask EXCEPT !.line = "raised", !.err = e, !.upload = wk[w].upload]
                ELSE Except(w, e, wk[w].upload)]
    /\ UNCHANGED nfail

Goto(w, upc) == wk' = [wk EXCEPT ![w].upc = upc, ![w].tmp = 0] /\ UNCHANGED nfail

InUpdate(w, upc) == wk[w].line \notin {"queued", "returned", "raised"} /\ wk[w].upc = upc

IsComplete(processed, total) == processed >= total

\* line 71: if job['processed_files'] >= job['total_files']
Check71(w, j) ==
    IF IsComplete(job[j].processed_files, job[j].total_files)
    THEN wk' = [wk EXCEPT ![w].upc = "72", ![w].job = j, ![w].tmp = 0] /\ UNCHANGED nfail
    ELSE Return(w)

\* line 43: if batch_id not in self.batch_jobs: return
U43(w) ==
    /\ InUpdate(w, "43")
    /\ IF Has(batch_jobs, BatchId(w[1])) THEN Goto(w, "46") ELSE Return(w)
    /\ UNCHANGED <<batch_counter, batch_jobs, job, now, req, sup, client, web>>

\* the lookup of line 46 puts the record of the batch back under an id that
\* batch_jobs does not hold
U46Setdefault(w) ==
    /\ InUpdate(w, "46")
    /\ batch_jobs' = Store(batch_jobs, BatchId(w[1]), w[1])
    /\ IF Filename(w) = UnhashableName
       THEN Raise(w, "TypeError") /\ UNCHANGED job
       ELSE /\ job' = [job EXCEPT ![w[1]].individual_progress =
                          DictSet(@, Filename(w), CallProgress(wk[w].line))]
            /\ IF IsTerminal(CallStatus(wk[w].line))
               THEN wk' = [wk EXCEPT ![w].upc = "53r", ![w].job = w[1]] /\ UNCHANGED nfail
               ELSE Check71(w, w[1])
    /\ UNCHANGED <<batch_counter, now, req, sup, client, web>>

\* line 46: job = self.batch_jobs[batch_id]; lines 49-50:
\* job['individual_progress'][filename] = individual_progress; and, in a
\* call whose status is 'processing' (lines 52-69 do nothing), line 71.
\* The accesses are one step: the lookup reads batch_jobs only, the rest
\* the job object only, and no other thread's step touches both.
\* The store of line 50 raises TypeError for an unhashable filename.
U46(w) ==
    /\ InUpdate(w, "46")
    /\ IF ~Has(batch_jobs, BatchId(w[1]))
       THEN Raise(w, "KeyError") /\ UNCHANGED job
       ELSE IF Filename(w) = UnhashableName
       THEN Raise(w, "TypeError") /\ UNCHANGED job
       ELSE LET j == Lookup(batch_jobs, BatchId(w[1])) IN
            /\ job' = [job EXCEPT ![j].individual_progress =
                          DictSet(@, Filename(w), CallProgress(wk[w].line))]
            /\ IF IsTerminal(CallStatus(wk[w].line))
               THEN wk' = [wk EXCEPT ![w].upc = "53r", ![w].job = j] /\ UNCHANGED nfail
               ELSE Check71(w, j)
    /\ UNCHANGED <<batch_counter, batch_jobs, now, req, sup, client, web>>

\* line 53, job['processed_files'] += 1: the read
U53r(w) ==
    /\ InUpdate(w, "53r")
    /\ wk' = [wk EXCEPT ![w].upc = "53w", ![w].tmp = job[wk[w].job].processed_files]
    /\ UNCHANGED <<batch_counter, batch_jobs, job, now, req, sup, nfail, client, web>>

Increment(n) == n + 1

\* line 53, job['processed_files'] += 1: the write
U53w(w) ==
    /\ InUpdate(w, "53w")
    /\ job' = [job EXCEPT ![wk[w].job].processed_files = Increment(wk[w].tmp)]
    /\ Goto(w, "54r")
    /\ UNCHANGED <<batch_counter, batch_jobs, now, req, sup, client, web>>

\* line 54: the read of job['processed_files'] (total_files never changes)
U54r(w) ==
    /\ InUpdate(w, "54r")
    /\ wk' = [wk EXCEPT ![w].upc = "54w", ![w].tmp = job[wk[w].job].processed_files]
    /\ UNCHANGED <<batch_counter, batch_jobs, job, now, req, sup, nfail, client, web>>

\* line 54: the write of job['progress']
U54w(w) ==
    /\ InUpdate(w, "54w")
    /\ job' = [job EXCEPT ![wk[w].job].progress = Progress(wk[w].tmp, job[wk[w].job].total_files)]
    /\ Goto(w, IF ResultTruthy(w) THEN "57" ELSE IF ErrorTruthy(w) THEN "66" ELSE "71")
    /\ UNCHANGED <<batch_counter, batch_jobs, now, req, sup, client, web>>

\* lines 56-63: job['results'].append(...)
U57(w) ==
    /\ InUpdate(w, "57")
    /\ job' = [job EXCEPT ![wk[w].job].results = Append(@, [filename |-> Filename(w)])]
    /\ Goto(w, "71")
    /\ UNCHANGED <<batch_counter, batch_jobs, now, req, sup, client, web>>

\* lines 65-69: job['errors'].append(...)
U66(w) ==
    /\ InUpdate(w, "66")
    /\ job' = [job EXCEPT ![wk[w].job].errors =
                  Append(@, [filename |-> Filename(w), error |-> wk[w].err])]
    /\ Goto(w, "71")
    /\ UNCHANGED <<batch_counter, batch_jobs, now, req, sup, client, web>>

\* line 71, in a call whose status is 'completed' or 'error'
U71(w) ==
    /\ InUpdate(w, "71")
    /\ Check71(w, wk[w].job)
    /\ UNCHANGED <<batch_counter, batch_jobs, job, now, req, sup, client, web>>

\* line 72: job['status'] = 'completed'
U72(w) ==
    /\ InUpdate(w, "72")
    /\ job' = [job EXCEPT ![wk[w].job].status = "completed"]
    /\ Goto(w, "73")
    /\ UNCHANGED <<batch_counter, batch_jobs, now, req, sup, client, web>>

\* the clock reading is stored as start_time too
U73Restart(w) ==
    /\ InUpdate(w, "73")
    /\ \E t \in TimeNow :
          /\ now' = t
          /\ job' = [job EXCEPT ![wk[w].job].end_time = t, ![wk[w].job].start_time = t]
    /\ Goto(w, "74r")
    /\ UNCHANGED <<batch_counter, batch_jobs, req, sup, client, web>>

\* line 73: job['end_time'] = time.time()
U73(w) ==
    /\ InUpdate(w, "73")
    /\ \E t \in TimeNow :
          /\ now' = t
          /\ job' = [job EXCEPT ![wk[w].job].end_time = t]
    /\ Goto(w, "74r")
    /\ UNCHANGED <<batch_counter, batch_jobs, req, sup, client, web>>

\* line 74: the read of job['end_time'] (start_time never changes)
U74r(w) ==
    /\ InUpdate(w, "74r")
    /\ wk' = [wk EXCEPT ![w].upc = "74w", ![w].tmp = job[wk[w].job].end_time]
    /\ UNCHANGED <<batch_counter, batch_jobs, job, now, req, sup, nfail, client, web>>

\* line 74: the write of job['total_time']
U74w(w) ==
    /\ InUpdate(w, "74w")
    /\ job' = [job EXCEPT ![wk[w].job].total_time = wk[w].tmp - job[wk[w].job].start_time]
    /\ Return(w)
    /\ UNCHANGED <<batch_counter, batch_jobs, now, req, sup, client, web>>

update_batch_progress(w) ==
    \/ U43(w) \/ U46(w)
    \/ U53r(w) \/ U53w(w) \/ U54r(w) \/ U54w(w)
    \/ U57(w) \/ U66(w)
    \/ U71(w) \/ U72(w) \/ U73(w) \/ U74r(w) \/ U74w(w)

\* ----------------------------------------------------------- process_batch
\* the counter is not advanced
StuckCounter(c) == c

\* self.batch_counter += 1
NextCounter(c) == c + 1

\* line 148, generate_batch_id: the counter and the clock are read and the
\* id is formatted while batch_lock is held
GenerateBatchId(b, files) ==
    /\ req[b].pc = "idle"
    /\ IF b = 1 THEN TRUE ELSE req[b - 1].pc # "idle"
    /\ \E t \in TimeNow :
          /\ now' = t
          /\ batch_counter' = NextCounter(batch_counter)
          /\ req' = [req EXCEPT ![b] = [pc |-> "create", files |-> files,
                                         batch_id |-> FormatBatchId(batch_counter', t)]]
    /\ UNCHANGED <<batch_jobs, job, sup, wk, nfail, client, web>>

\* the record is not stored by process_batch itself
CreateDeferred(b) ==
    /\ req[b].pc = "create"
    /\ req' = [req EXCEPT ![b].pc = "start"]
    /\ UNCHANGED <<batch_counter, batch_jobs, job, now, sup, wk, nfail, client, web>>

\* line 149, create_batch_job: self.batch_jobs[batch_id] = {...}
CreateBatchJob(b) ==
    /\ req[b].pc = "create"
    /\ \E t \in TimeNow :
          /\ now' = t
          /\ job' = [job EXCEPT ![b] = NewJob(Len(Files(b)), t)]
    /\ batch_jobs' = Store(batch_jobs, BatchId(b), b)
    /\ req' = [req EXCEPT ![b].pc = "start"]
    /\ UNCHANGED <<batch_counter, sup, wk, nfail, client, web>>

\* lines 180-184: the supervising thread is started, the id is returned
StartThread(b) ==
    /\ req[b].pc = "start"
    /\ req' = [req EXCEPT ![b].pc = "returned"]
    /\ sup' = [sup EXCEPT ![b] = [pc |-> "loop", next |-> 1]]
    /\ UNCHANGED <<batch_counter, batch_jobs, job, now, wk, nfail, client, web>>

\* --------------------------------------------------- process_files_parallel
\* the pool gets a thread for every file
OneThreadPerFile(b) == Len(Files(b))

\* line 153
MaxWorkers(b) == Min(Len(Files(b)), MAX_BATCH_WORKERS)

Finished(w) == wk[w].line \in {"returned", "raised"}
Running(w) == wk[w].line \notin {"queued", "returned", "raised"}
TasksOf(b) == {w \in DOMAIN wk : w[1] = b}

\* line 155: ThreadPoolExecutor(max_workers) raises ValueError for 0
\* workers.  lines 157-174: one turn of the loop: the bytes of the file are
\* read (a MockFile holds them), the task is submitted.
SupSubmit(b) ==
    /\ sup[b].pc = "loop"
    /\ LET i == sup[b].next IN
       IF MaxWorkers(b) <= 0
       THEN sup' = [sup EXCEPT ![b].pc = "dead"] /\ UNCHANGED <<wk, nfail>>
       ELSE \/ /\ wk' = (<<b, i>> :> [NoTask EXCEPT !.line = "queued"]) @@ wk
               /\ sup' = [sup EXCEPT ![b].next = i + 1,
                                     ![b].pc = IF i = Len(Files(b)) THEN "wait" ELSE "loop"]
               /\ UNCHANGED nfail
            \/ /\ ~Files(b)[i].mock
               /\ CanFail
               /\ nfail' = nfail + 1
               /\ sup' = [sup EXCEPT ![b].pc = "unwind"]
               /\ UNCHANGED wk
    /\ UNCHANGED <<batch_counter, batch_jobs, job, now, req, client, web>>

\* line 177, concurrent.futures.wait, and the exit of the with block
\* (shutdown(wait=True)), also when file.read() raised
SupWait(b) ==
    /\ sup[b].pc \in {"wait", "unwind"}
    /\ \A w \in TasksOf(b) : Finished(w)
    /\ sup' = [sup EXCEPT ![b].pc = IF sup[b].pc = "wait" THEN "done" ELSE "dead"]
    /\ UNCHANGED <<batch_counter, batch_jobs, job, now, req, wk, nfail, client, web>>

\* a pool thread takes the oldest queued task; the pool has max_workers threads
PoolStart(w) ==
    /\ wk[w].line = "queued"
    /\ \A v \in TasksOf(w[1]) : wk[v].line = "queued" => v[2] >= w[2]
    /\ Cardinality({v \in TasksOf(w[1]) : Running(v)}) < MaxWorkers(w[1])
    /\ wk' = [wk EXCEPT ![w] = At(w, "L80")]
    /\ UNCHANGED <<batch_counter, batch_jobs, job, now, req, sup, nfail, client, web>>

\* --------------------------------------------------------- get_batch_status
NoPoll == [pc |-> "idle", id |-> <<>>, job |-> 0, snap |-> <<>>]

\* the ids a client holds: those process_batch returned
ReturnedIds == {BatchId(b) : b \in {x \in Batches : req[x].pc = "returned"}}

\* an empty status is answered for an unknown id
EmptyStatus(id) == [id |-> id, found |-> TRUE]

\* return None
NotFound(id) == [id |-> id, found |-> FALSE]

\* the call returns (None, or the dict built by lines 192-202)
Reply(r) ==
    /\ polled' = Append(polled, r)
    /\ poll' = NoPoll

\* line 188: if batch_id not in self.batch_jobs: return None
G188(id) ==
    /\ poll.pc = "idle"
    /\ Len(polled) < MaxPolls
    /\ IF Has(batch_jobs, id)
       THEN poll' = [NoPoll EXCEPT !.pc = "191", !.id = id] /\ UNCHANGED polled
       ELSE Reply(NotFound(id))
    /\ UNCHANGED <<batch_counter, batch_jobs, job, now, req, sup, wk, nfail, cl, nsweep, web>>

\* line 191: job = self.batch_jobs[batch_id]
G191 ==
    /\ poll.pc = "191"
    /\ IF Has(batch_jobs, poll.id)
       THEN poll' = [poll EXCEPT !.pc = "194", !.job = Lookup(batch_jobs, poll.id)] /\ UNCHANGED polled
       ELSE Reply([id |-> poll.id, found |-> FALSE, raised |-> "KeyError"])
    /\ UNCHANGED <<batch_counter, batch_jobs, job, now, req, sup, wk, nfail, cl, nsweep, web>>

\* line 194: 'status': job['status']
G194 ==
    /\ poll.pc = "194"
    /\ poll' = [poll EXCEPT !.pc = "195", !.snap = [status |-> job[poll.job].status]]
    /\ UNCHANGED <<batch_counter, batch_jobs, job, now, req, sup, wk, nfail, polled, cl, nsweep, web>>

\* line 195: 'progress': job['progress']
G195 ==
    /\ poll.pc = "195"
    /\ poll' = [poll EXCEPT !.pc = "197",
                  !.snap = [status |-> poll.snap.status, progress |-> job[poll.job].progress]]
    /\ UNCHANGED <<batch_counter, batch_jobs, job, now, req, sup, wk, nfail, polled, cl, nsweep, web>>

\* lines 196-197: 'total_files', 'processed_files'
G197 ==
    /\ poll.pc = "197"
    /\ poll' = [poll EXCEPT !.pc = "200",
                  !.snap = [status |-> poll.snap.status, progress |-> poll.snap.progress,
                            total_files |-> job[poll.job].total_files,
                            processed_files |-> job[poll.job].processed_files]]
    /\ UNCHANGED <<batch_counter, batch_jobs, job, now, req, sup, wk, nfail, polled, cl, nsweep, web>>

\* job.get('total_time', 0)
GetTotalTime(j) == IF j.total_time = Absent THEN 0 ELSE j.total_time

\* the reply is built and the record of a completed job is dropped
G200Pop ==
    /\ poll.pc = "200"
    /\ Reply([id |-> poll.id, found |-> TRUE,
              ref |-> poll.job,
              status |-> poll.snap.status,
              progress |-> poll.snap.progress,
              total_files |-> poll.snap.total_files,
              processed_files |-> poll.snap.processed_files,
              total_time |-> GetTotalTime(job[poll.job])])
    /\ batch_jobs' = IF poll.snap.status = "completed"
                     THEN Delete(batch_jobs, poll.id) ELSE batch_jobs
    /\ UNCHANGED <<batch_counter, job, now, req, sup, wk, nfail, cl, nsweep, web>>

\* lines 198-202: 'results', 'errors' and 'individual_progress' of the reply
\* are the job's own list and dict objects (ref: the job they belong to);
\* 'total_time' is read
G200 ==
    /\ poll.pc = "200"
    /\ Reply([id |-> poll.id, found |-> TRUE,
              ref |-> poll.job,
              status |-> poll.snap.status,
              progress |-> poll.snap.progress,
              total_files |-> poll.snap.total_files,
              processed_files |-> poll.snap.processed_files,
              total_time |-> GetTotalTime(job[poll.job])])
    /\ UNCHANGED <<batch_counter, batch_jobs, job, now, req, sup, wk, nfail, cl, nsweep, web>>

get_batch_status ==
    \/ \E id \in ReturnedIds : G188(id)
    \/ G191 \/ G194 \/ G195 \/ G197 \/ G200

\* an id no generate_batch_id call returns: the counter of an id is at least 1
FabricatedIds == {FormatBatchId(0, 0)}

\* a client asks for the status of an id it made up
Probe == \E id \in FabricatedIds : G188(id)

\* ------------------------------------------------------ cleanup_old_batches
NoHttp == [pc |-> "idle"]

NoSweep == [pc |-> "idle", current_time |-> 0, max_age |-> 0, size |-> 0, seen |-> {}, rm |-> <<>>]

\* line 206: current_time = time.time(); line 209: the iteration starts
Cl206(s, max_age) ==
    /\ cl[s].pc \in {"idle", "raised"}
    /\ nsweep' = nsweep + 1
    /\ \E t \in TimeNow :
          /\ now' = t
          /\ cl' = [cl EXCEPT ![s] = [NoSweep EXCEPT !.pc = "209", !.current_time = t,
                                                     !.max_age = max_age,
                                                     !.size = Len(batch_jobs)]]
    /\ UNCHANGED <<batch_counter, batch_jobs, job, req, sup, wk, nfail, poll, polled, web>>

IsOld(current_time, start_time, max_age) == current_time - start_time > max_age

\* lines 209-211: one turn of the loop over self.batch_jobs.items(); the
\* iterator raises RuntimeError when the dict changed its size
Cl209(s) ==
    /\ cl[s].pc = "209"
    /\ LET rest == SelectSeq(batch_jobs, LAMBDA e : e.key \notin cl[s].seen) IN
       IF Len(batch_jobs) # cl[s].size
       THEN cl' = [cl EXCEPT ![s] = [NoSweep EXCEPT !.pc = "raised"]]
       ELSE IF rest = <<>>
       THEN cl' = [cl EXCEPT ![s].pc = "213", ![s].seen = {}]
       ELSE cl' = [cl EXCEPT ![s].seen = @ \cup {rest[1].key},
                             ![s].rm = IF IsOld(cl[s].current_time, job[rest[1].val].start_time,
                                                cl[s].max_age)
                                       THEN Append(@, rest[1].key) ELSE @]
    /\ UNCHANGED <<batch_counter, batch_jobs, job, now, req, sup, wk, nfail, poll, polled, nsweep, web>>

\* lines 213-214: del self.batch_jobs[batch_id]
Cl213(s) ==
    /\ cl[s].pc = "213"
    /\ IF cl[s].rm = <<>>
       THEN cl' = [cl EXCEPT ![s] = NoSweep] /\ UNCHANGED batch_jobs
       ELSE IF Has(batch_jobs, Head(cl[s].rm))
       THEN cl' = [cl EXCEPT ![s].rm = Tail(@)] /\ batch_jobs' = Delete(batch_jobs, Head(cl[s].rm))
       ELSE cl' = [cl EXCEPT ![s] = [NoSweep EXCEPT !.pc = "raised"]] /\ UNCHANGED batch_jobs
    /\ UNCHANGED <<batch_counter, job, now, req, sup, wk, nfail, poll, polled, nsweep, web>>

\* one caller, up to MaxSweeps calls one after the other
cleanup_old_batches ==
    \/ nsweep < MaxSweeps /\ \E max_age \in 0..(MaxTime - 1) : Cl206(1, max_age)
    \/ Cl209(1) \/ Cl213(1)

\* a sweeper thread deletes a record
Deleting == \E s \in Sweepers : cl[s].pc = "213"

\* ------------------------------------------------------------ batch_upload
\* routes/main.py, batch_upload.  What the route does with a file of the
\* request depends on the kind of the file only:
\*   unnamed    filename ''
\*   image      passes validate_file_security and allowed_file
\*   bad_image  fails one of them
\*   bad_zip    a .zip that fails validate_zip_file
\*   zip_raise  a valid .zip whose extraction raises
\*   zip0, zip1 a valid .zip from which no image, one image is extracted
FileKinds == {"unnamed", "image", "bad_image", "bad_zip", "zip_raise", "zip0", "zip1"}

\* has_field: 'files[]' in request.files; form_ok: the quality settings of
\* the form are integers
Requests ==
    [has_field : BOOLEAN, form_ok : BOOLEAN, files : SeqsUpTo(FileKinds, MaxUpload)]

RECURSIVE ValidateFrom(_, _, _)
\* lines 162-213: the loop over the files from index i on, valid the list
\* valid_files so far; the loop ends with a 400 response at the first named
\* file that is not valid
ValidateFrom(files, i, valid) ==
    IF i > Len(files) THEN [rejected |-> FALSE, valid |-> valid]
    ELSE CASE files[i] = "unnamed" -> ValidateFrom(files, i + 1, valid)
           [] files[i] = "image" ->
                ValidateFrom(files, i + 1, Append(valid, [filename |-> Name(i), mock |-> FALSE]))
           [] files[i] = "zip1" ->
                ValidateFrom(files, i + 1, Append(valid, [filename |-> Name(i), mock |-> TRUE]))
           [] files[i] = "zip0" -> ValidateFrom(files, i + 1, valid)
           [] OTHER -> [rejected |-> TRUE, valid |-> <<>>]

\* the route up to the call of process_batch or to its error response
BatchUpload(request) ==
    /\ http.pc = "idle"
    /\ LET v == ValidateFrom(request.files, 1, <<>>)
           Answer(status) == [pc |-> "answered", request |-> request,
                              valid_files |-> <<>>, status |-> status]
       IN  http' =
              IF ~request.has_field THEN Answer(400)                              \* line 140
              ELSE IF \A i \in DOMAIN request.files : request.files[i] = "unnamed"
              THEN Answer(400)                                                    \* line 145
              ELSE IF ~request.form_ok THEN Answer(500)   \* lines 150-153: int() raises ValueError
              ELSE IF v.rejected THEN Answer(400)                     \* lines 203, 205, 213
              ELSE IF v.valid = <<>> THEN Answer(400)                             \* line 216
              ELSE [pc |-> "219", request |-> request, valid_files |-> v.valid, status |-> 0]
    /\ UNCHANGED <<batch_counter, batch_jobs, job, now, req, sup, wk, nfail, client,
                   model_cache, model_lock, gm, loads>>

\* line 219: batch_processor.process_batch(valid_files, ...) is called
RouteCall ==
    /\ http.pc = "219"
    /\ GenerateBatchId(1, http.valid_files)

\* lines 221-226: process_batch returned, the route answers
RouteAnswer ==
    /\ http.pc = "219"
    /\ req[1].pc = "returned"
    /\ http' = [http EXCEPT !.pc = "answered", !.status = 200]
    /\ UNCHANGED <<batch_counter, batch_jobs, job, now, req, sup, wk, nfail, client,
                   model_cache, model_lock, gm, loads>>

\* ------------------------------------------------------ require_bearer_token
\* utils/auth.py.  A header value is a string, kept as the sequence of its
\* pieces: the words "Bearer" and "Basic", the space " ", and the token
\* characters "a" and "b"; two values are the same string exactly when they
\* are the same sequence.
Pieces == {"Bearer", "Basic", " ", "a", "b"}
TokenChars == {"a", "b"}

\* request.headers.get(name): the header is missing or has a value
Headers ==
    {[present |-> FALSE, value |-> <<>>]}
    \cup {[present |-> TRUE, value |-> v] : v \in SeqsUpTo(Pieces, MaxHeader)}

\* the configured API_BEARER_TOKEN
Tokens == SeqsUpTo(TokenChars, MaxToken) \ {<<>>}

RECURSIVE Split(_)
\* str.split(' '): the parts between the spaces, empty parts included
Split(v) ==
    IF \A i \in DOMAIN v : v[i] # " "
    THEN <<v>>
    ELSE LET i == CHOOSE i \in DOMAIN v : v[i] = " " /\ \A k \in 1..(i - 1) : v[k] # " "
         IN  <<SubSeq(v, 1, i - 1)>> \o Split(SubSeq(v, i + 1, Len(v)))

\* auth_header.startswith('Bearer ')
StartsWithBearer(v) == Len(v) >= 2 /\ v[1] = "Bearer" /\ v[2] = " "

\* the last part is taken, however many there are
TokenLast(v) ==
    [some |-> TRUE, value |-> Split(v)[Len(Split(v))]]

\* line 39: auth_header.split(' ')[1] if len(auth_header.split(' ')) == 2
\* else None
TokenOf(v) ==
    IF Len(Split(v)) = 2 THEN [some |-> TRUE, value |-> Split(v)[2]]
                         ELSE [some |-> FALSE, value |-> <<>>]

\* decorated_function: the response status, and whether f was called
\* (f answers 200)
Decorated(require_auth, header, expected) ==
    IF ~require_auth THEN [status |-> 200, ran |-> TRUE]                       \* lines 20-21
    ELSE IF ~header.present \/ header.value = <<>>                                \* line 26
    THEN [status |-> 401, ran |-> FALSE]
    ELSE IF ~StartsWithBearer(header.value)                                       \* line 33
    THEN [status |-> 401, ran |-> FALSE]
    ELSE LET token == TokenOf(header.value) IN
         IF ~token.some \/ token.value = <<>>                                     \* line 41
         THEN [status |-> 401, ran |-> FALSE]
         ELSE IF token.value # expected                                           \* line 49
         THEN [status |-> 401, ran |-> FALSE]
         ELSE [status |-> 200, ran |-> TRUE]                                     \* line 57

\* a request reaches an endpoint wrapped by require_bearer_token
AuthRequest(require_auth, header, expected) ==
    /\ http.pc = "idle"
    /\ http' = [pc |-> "auth", require_auth |-> require_auth, header |-> header,
                expected |-> expected]
    /\ UNCHANGED <<batch_counter, batch_jobs, job, now, req, sup, wk, nfail, client,
                   model_cache, model_lock, gm, loads>>

\* decorated_function runs and the response is sent
AuthDecide ==
    /\ http.pc = "auth"
    /\ LET d == Decorated(http.require_auth, http.header, http.expected) IN
       http' = [pc |-> "authorized", require_auth |-> http.require_auth,
                header |-> http.header, expected |-> http.expected,
                status |-> d.status, ran |-> d.ran]
    /\ UNCHANGED <<batch_counter, batch_jobs, job, now, req, sup, wk, nfail, client,
                   model_cache, model_lock, gm, loads>>

require_bearer_token ==
    \/ /\ http.pc = "idle"
       /\ \E require_auth \in BOOLEAN, header \in Headers, expected \in Tokens :
             AuthRequest(require_auth, header, expected)
    \/ AuthDecide

\* ---------------------------------------------------------------- get_model
\* BackgroundRemoverService.get_model (services/background_remover.py)
Callers == 1..MaxCallers
ModelNames == {"u2net_human_seg", "u2net"}

NoCall == [pc |-> "idle", name |-> "", ret |-> <<>>]

\* the calls of the loader for a name, and those that returned a model
LoadsOf(name) == {i \in DOMAIN loads : loads[i].name = name}
Loaded(name) == {i \in LoadsOf(name) : loads[i].ok}

\* the model object the i-th call of the loader built
Instance(name, i) == <<name, i>>

\* a thread calls get_model(model_name)
GmCall(t, name) ==
    /\ gm[t].pc = "idle"
    /\ gm' = [gm EXCEPT ![t] = [NoCall EXCEPT !.pc = "22", !.name = name]]
    /\ UNCHANGED <<batch_counter, batch_jobs, job, now, req, sup, wk, nfail, client,
                   http, model_cache, model_lock, loads>>

\* line 22: if model_name not in self.model_cache (no lock held)
Gm22(t) ==
    /\ gm[t].pc = "22"
    /\ gm' = [gm EXCEPT ![t].pc = IF gm[t].name \in DOMAIN model_cache THEN "26" ELSE "23"]
    /\ UNCHANGED <<batch_counter, batch_jobs, job, now, req, sup, wk, nfail, client,
                   http, model_cache, model_lock, loads>>

\* line 23: with self.model_lock
Gm23(t) ==
    /\ gm[t].pc = "23"
    /\ model_lock = 0
    /\ model_lock' = t
    /\ gm' = [gm EXCEPT ![t].pc = "24"]
    /\ UNCHANGED <<batch_counter, batch_jobs, job, now, req, sup, wk, nfail, client,
                   http, model_cache, loads>>

\* the thread goes on to load, whatever the cache holds
Gm24Unchecked(t) ==
    /\ gm[t].pc = "24"
    /\ gm' = [gm EXCEPT ![t].pc = "25"]
    /\ UNCHANGED <<batch_counter, batch_jobs, job, now, req, sup, wk, nfail, client,
                   http, model_cache, model_lock, loads>>

\* line 24: if model_name not in self.model_cache (the lock held); the with
\* block is left when the name is there
Gm24(t) ==
    /\ gm[t].pc = "24"
    /\ IF gm[t].name \in DOMAIN model_cache
       THEN gm' = [gm EXCEPT ![t].pc = "26"] /\ model_lock' = 0
       ELSE gm' = [gm EXCEPT ![t].pc = "25"] /\ UNCHANGED model_lock
    /\ UNCHANGED <<batch_counter, batch_jobs, job, now, req, sup, wk, nfail, client,
                   http, model_cache, loads>>

\* line 25: self.model_cache[model_name] = bg.get_model(model_name); the
\* loader returns a new model object, or raises (the weights cannot be read):
\* then nothing is stored and the exception leaves get_model.  Either way
\* the with block releases the lock.
Gm25(t) ==
    /\ gm[t].pc = "25"
    /\ model_lock' = 0
    /\ \/ /\ loads' = Append(loads, [name |-> gm[t].name, ok |-> TRUE])
          /\ model_cache' = DictSet(model_cache, gm[t].name, Instance(gm[t].name, Len(loads')))
          /\ gm' = [gm EXCEPT ![t].pc = "26"]
          /\ UNCHANGED nfail
       \/ /\ CanFail
          /\ nfail' = nfail + 1
          /\ loads' = Append(loads, [name |-> gm[t].name, ok |-> FALSE])
          /\ gm' = [gm EXCEPT ![t].pc = "raised"]
          /\ UNCHANGED model_cache
    /\ UNCHANGED <<batch_counter, batch_jobs, job, now, req, sup, wk, client, http>>

\* line 26: return self.model_cache[model_name]
Gm26(t) ==
    /\ gm[t].pc = "26"
    /\ gm' = [gm EXCEPT ![t].pc = "done", ![t].ret = model_cache[gm[t].name]]
    /\ UNCHANGED <<batch_counter, batch_jobs, job, now, req, sup, wk, nfail, client,
                   http, model_cache, model_lock, loads>>

get_model ==
    \E t \in Callers :
        \/ \E name \in ModelNames : GmCall(t, name)
        \/ Gm22(t) \/ Gm23(t) \/ Gm24(t) \/ Gm25(t) \/ Gm26(t)

\* ------------------------------------------------------------ specification
Init ==
    /\ batch_counter = 0
    /\ batch_jobs = <<>>
    /\ job = [b \in Batches |-> NoJob]
    /\ now = 0
    /\ req = [b \in Batches |-> NoRequest]
    /\ sup = [b \in Batches |-> NoThread]
    /\ wk = [w \in {} |-> NoTask]
    /\ nfail = 0
    /\ poll = NoPoll
    /\ polled = <<>>
    /\ cl = [s \in Sweepers |-> NoSweep]
    /\ nsweep = 0
    /\ http = NoHttp
    /\ model_cache = EmptyDict
    /\ model_lock = 0
    /\ gm = [t \in Callers |-> NoCall]
    /\ loads = <<>>

Program ==
    \/ \E b \in Batches : CreateBatchJob(b) \/ StartThread(b) \/ SupSubmit(b) \/ SupWait(b)
    \/ \E w \in DOMAIN wk : PoolStart(w) \/ update_batch_progress(w)

\* one batch of up to MaxFiles items with distinct names
Next ==
    \/ \E n \in 1..MaxFiles : GenerateBatchId(1, DistinctFiles(n))
    \/ Program

Spec == Init /\ [][Next]_vars

\* one batch of up to MaxPollFiles items, and a client polling its status
NextPoll ==
    \/ \E n \in 1..MaxPollFiles : GenerateBatchId(1, DistinctFiles(n))
    \/ Program
    \/ get_batch_status

SpecPoll == Init /\ [][NextPoll]_vars

\* one batch of up to MaxPollFiles items whose threads keep running: the
\* request thread, the daemon thread and the pool's workers are operating
\* system threads, so while one of them can take a step one of them does
NextFair ==
    \/ \E n \in 1..MaxPollFiles : GenerateBatchId(1, DistinctFiles(n))
    \/ Program

SpecFair == Init /\ [][NextFair]_vars /\ WF_vars(Program)

\* one batch: either a single file, or up to MaxPoolFiles files none of
\* which gets further than its first report (their filenames are unhashable)
NextPool ==
    \/ GenerateBatchId(1, DistinctFiles(1))
    \/ \E n \in 1..MaxPoolFiles : GenerateBatchId(1, UnhashableFiles(n))
    \/ Program

SpecPool == Init /\ [][NextPool]_vars

RECURSIVE ItemsUpTo(_)
ItemsUpTo(b) == IF b = 0 THEN 0 ELSE Len(req[b].files) + ItemsUpTo(b - 1)

\* The events of the environment so far: process_batch calls and their
\* items, get_batch_status calls, cleanup_old_batches calls, failures of
\* the collaborators, and the seconds the clock went on.
OpsUsed ==
    Cardinality({b \in Batches : req[b].pc # "idle"}) + ItemsUpTo(MaxBatches)
    + Len(polled) + (IF poll.pc = "idle" THEN 0 ELSE 1)
    + nsweep + nfail + now

\* the environment keeps to MaxOps events
Within == OpsUsed' <= MaxOps

\* up to MaxBatches process_batch calls of up to MaxItems items each
Submit == \E b \in Batches, n \in 0..MaxItems : GenerateBatchId(b, DistinctFiles(n))

\* many batches, clients polling ids they hold or made up, and cleanup calls
NextLife ==
    \/ Submit /\ Within
    \/ Program /\ Within
    \/ get_batch_status /\ Within
    \/ Probe /\ Within
    \/ cleanup_old_batches /\ Within

SpecLife == Init /\ [][NextLife]_vars

\* many batches and cleanup calls, no client asking for a status
NextEvict ==
    \/ Submit /\ Within
    \/ Program /\ Within
    \/ cleanup_old_batches /\ Within

SpecEvict == Init /\ [][NextEvict]_vars

\* time goes by while no thread is reading the clock
Tick ==
    /\ now < MaxLate
    /\ now' = now + 1
    /\ UNCHANGED <<batch_counter, batch_jobs, job, req, sup, wk, nfail, poll, polled, cl, nsweep, web>>

\* up to MaxOverlap calls of cleanup_old_batches, each by a thread of its own
Sweeps ==
    \E s \in Sweepers :
        \/ nsweep < MaxOverlap /\ \E max_age \in 0..(MaxLate - 1) : Cl206(s, max_age)
        \/ Cl209(s) \/ Cl213(s)

\* one batch of one item, cleanup calls that overlap, and time going by
NextSweep ==
    \/ GenerateBatchId(1, DistinctFiles(1))
    \/ Program
    \/ Tick
    \/ Sweeps

SpecSweep == Init /\ [][NextSweep]_vars

\* one batch of one item, and a client polling its status
NextQuery ==
    \/ GenerateBatchId(1, DistinctFiles(1))
    \/ Program
    \/ get_batch_status

SpecQuery == Init /\ [][NextQuery]_vars

\* up to MaxCallers threads that call get_model once each
NextModel == get_model

SpecModel == Init /\ [][NextModel]_vars

\* one batch_upload request, up to the response of the route
NextUpload ==
    \/ http.pc = "idle" /\ \E request \in Requests : BatchUpload(request)
    \/ RouteCall
    \/ CreateBatchJob(1) \/ StartThread(1)
    \/ RouteAnswer

SpecUpload == Init /\ [][NextUpload]_vars

\* one request to a protected endpoint
NextAuth == require_bearer_token

SpecAuth == Init /\ [][NextAuth]_vars

\* one batch of two or more items that share their filename
NextTwin ==
    \/ \E n \in 2..MaxPollFiles : GenerateBatchId(1, SameNameFiles(n))
    \/ Program

SpecTwin == Init /\ [][NextTwin]_vars

\* ------------------------------------------------------------------ claims
Created(b) == job[b].total_files # Absent
Terminated(b) == {w \in TasksOf(b) : Finished(w)}
InTerminalCall(w) == wk[w].line \in {"L128", "L134"}
Found(i) == polled[i].found
SameJob(i, j) == i < j /\ polled[i].id = polled[j].id /\ Found(i) /\ Found(j)
StatusOf(d, objs, id) == objs[Lookup(d, id)].status

\* C1: in every reachable state of a batch job, processed_files equals
\* len(results) + len(errors).
C1_Accounting ==
    \A b \in Batches :
        Created(b) =>
            job[b].processed_files = Len(job[b].results) + Len(job[b].errors)

\* C2: under fair scheduling of the supervising thread and the workers, a
\* batch of N >= 1 items all handed to the pool (the supervising thread
\* reached concurrent.futures.wait) eventually is 'completed' with
\* processed_files = N.
C2_Completes ==
    \A b \in Batches :
        (sup[b].pc = "wait")
            ~> /\ Created(b)
               /\ job[b].status = "completed"
               /\ job[b].processed_files = Len(Files(b))

\* C3: when k workers of a batch have returned from their terminal
\* update_batch_progress call and no other worker is inside one,
\* processed_files equals k.
C3_NoLostReport ==
    \A b \in Batches :
        (Created(b) /\ \A w \in TasksOf(b) : ~InTerminalCall(w)) =>
            job[b].processed_files = Cardinality(Terminated(b))

\* C4: the processed_files and progress values that successive
\* get_batch_status calls return for an id are non-decreasing.
C4_Monotone ==
    \A i, j \in DOMAIN polled :
        SameJob(i, j) =>
            /\ polled[i].processed_files <= polled[j].processed_files
            /\ ProgressLeq(polled[i].progress, polled[j].progress)

\* C5: once end_time and total_time of a job are written, no later step
\* changes them.
C5_CompletionTimeOnce ==
    [][\A b \in Batches :
          /\ (Created(b) /\ job[b].end_time # Absent) => job'[b].end_time = job[b].end_time
          /\ (Created(b) /\ job[b].total_time # Absent) => job'[b].total_time = job[b].total_time]_vars

\* C6: every get_batch_status result has status 'completed' if and only if
\* its processed_files equals its total_files.
C6_CompletedIff ==
    \A i \in DOMAIN polled :
        Found(i) =>
            (polled[i].status = "completed"
                <=> polled[i].processed_files = polled[i].total_files)

\* C7: processed_files starts at 0, changes only by +1 steps and never
\* exceeds total_files.
C7_CountsUp ==
    /\ [](\A b \in Batches : Created(b) => job[b].processed_files <= job[b].total_files)
    /\ [][\A b \in Batches :
             /\ (~Created(b) /\ Created(b)') => job'[b].processed_files = 0
             /\ Created(b) => job'[b].processed_files \in
                                {job[b].processed_files, job[b].processed_files + 1}]_vars

\* C9: when every item of a batch returned or raised and exactly one of
\* them failed, the batch is 'completed' with one error record and N-1
\* result records.
C9_Isolation ==
    \A b \in Batches :
        (/\ sup[b].pc = "done"
         /\ Cardinality({w \in TasksOf(b) : wk[w].line = "raised"}) = 1) =>
            /\ job[b].status = "completed"
            /\ Len(job[b].errors) = 1
            /\ Len(job[b].results) = Len(Files(b)) - 1

\* C8: the status of a job changes at most once, from 'processing' to
\* 'completed': no step changes it in another way, the status found under
\* an id never goes back from 'completed', and once a get_batch_status call
\* returned 'completed' for an id no later call returns 'processing'.
C8_StatusOnce ==
    /\ [](\A i, j \in DOMAIN polled :
            (SameJob(i, j) /\ polled[i].status = "completed") => polled[j].status = "completed")
    /\ [][\A b \in Batches :
             Created(b) =>
                \/ job'[b].status = job[b].status
                \/ job[b].status = "processing" /\ job'[b].status = "completed"]_vars
    /\ [][\A id \in Keys(batch_jobs) \cap Keys(batch_jobs') :
             StatusOf(batch_jobs, job, id) = "completed"
                => StatusOf(batch_jobs', job', id) = "completed"]_vars

\* two get_batch_status calls answered for a job, the first with 'completed'
C8_Witness ==
    \E i, j \in DOMAIN polled : SameJob(i, j) /\ polled[i].status = "completed"

Started == {b \in Batches : req[b].pc # "idle"}

\* C10: the ids generate_batch_id returned are pairwise distinct, also when
\* an earlier record was evicted, and create_batch_job never finds its id
\* in batch_jobs.
C10_UniqueIds ==
    /\ \A a, b \in Started : a # b => BatchId(a) # BatchId(b)
    /\ \A b \in Batches : req[b].pc = "create" => ~Has(batch_jobs, BatchId(b))

\* a second id was generated and stored after the record of a first one,
\* returned by process_batch, was evicted
C10_Witness ==
    \E a, b \in Started :
        /\ a # b
        /\ req[a].pc = "returned" /\ ~Has(batch_jobs, BatchId(a))
        /\ Has(batch_jobs, BatchId(b))

\* C11: a process_batch call with an empty list of files creates no job
\* record and returns no batch id.
C11_EmptyRejected ==
    \A b \in Started :
        Len(Files(b)) = 0 =>
            /\ ~Created(b)
            /\ ~Has(batch_jobs, BatchId(b))
            /\ req[b].pc # "returned"

\* the id of the get_batch_status call that a step started
CalledId == IF poll'.pc = "idle" THEN polled'[Len(polled')].id ELSE poll'.id

\* C12: a get_batch_status call for an id that batch_jobs does not hold (a
\* made-up id, or the id of an evicted record) returns the not-found result
\* at once and leaves batch_jobs and the job records unchanged.
C12_NotFound ==
    [][(poll.pc = "idle" /\ <<poll, polled>>' # <<poll, polled>> /\ ~Has(batch_jobs, CalledId)) =>
          /\ poll'.pc = "idle"
          /\ Len(polled') = Len(polled) + 1
          /\ ~polled'[Len(polled')].found
          /\ "raised" \notin DOMAIN polled'[Len(polled')]
          /\ batch_jobs' = batch_jobs
          /\ job' = job]_vars

\* a made-up id was asked for while batch_jobs held a record, and the
\* not-found result came back
C12_Witness ==
    \E i \in DOMAIN polled :
        /\ polled[i].id \in FabricatedIds
        /\ ~polled[i].found
        /\ batch_jobs # <<>>

\* the records of a results or errors list that carry the item key
Records(list, filename) == {k \in DOMAIN list : list[k].filename = filename}

\* C13: once a batch is completed, every filename of the batch is in exactly
\* one of results and errors (the filenames of a batch are distinct).
C13_ExactlyOne ==
    \A b \in Batches :
        (Created(b) /\ job[b].status = "completed") =>
            \A i \in DOMAIN Files(b) :
                LET name == Files(b)[i].filename IN
                Cardinality(Records(job[b].results, name))
                    + Cardinality(Records(job[b].errors, name)) = 1

\* C14: every item whose processing raised an exception has exactly one
\* record in errors once its failure report returned, whatever the message
\* of the exception.
C14_ErrorRecorded ==
    \A w \in DOMAIN wk :
        wk[w].line = "raised" =>
            Cardinality(Records(job[w[1]].errors, Filename(w))) = 1

\* individual_progress[filename] of the record of task w's batch
ItemProgress(w) == job[w[1]].individual_progress[Filename(w)]

\* the record of batch b is the one batch_jobs holds under the batch's id
Registered(b) == Created(b) /\ Has(batch_jobs, BatchId(b))

\* C15 as stated: after the failure report of an item,
\* individual_progress[filename] is not reset to 0.
C15_KeepsLast ==
    \A w \in DOMAIN wk :
        (wk[w].line = "raised" /\ Registered(w[1])) => ItemProgress(w) # 0

\* C15 as amended: the failure report of an item sets
\* individual_progress[filename] to 0 in the record batch_jobs holds.
C15_ResetToZero ==
    \A w \in DOMAIN wk :
        (wk[w].line = "raised" /\ Registered(w[1])) => ItemProgress(w) = 0

\* an item failed after progress was reported for it, and its failure
\* report returned
C15_Witness ==
    \E w \in DOMAIN wk :
        /\ wk[w].line = "raised" /\ wk[w].err = "transform failed"
        /\ Registered(w[1])
        /\ ItemProgress(w) = 0

\* C16: the values written to individual_progress[filename] never go down
\* before the failure report of the item, and the value is 100 once the
\* success report of the item returned (the record being in batch_jobs).
C16_ItemProgress ==
    /\ [][\A w \in DOMAIN wk :
             (Created(w[1]) /\ Filename(w) \in DOMAIN job[w[1]].individual_progress) =>
                \/ ItemProgress(w)' >= ItemProgress(w)
                \/ wk[w].line = "L134"]_vars
    /\ [](\A w \in DOMAIN wk :
             (wk[w].line = "returned" /\ Registered(w[1])) => ItemProgress(w) = 100)

\* an item went through all its reports and returned
C16_Witness ==
    \E w \in DOMAIN wk :
        wk[w].line = "returned" /\ Registered(w[1]) /\ ItemProgress(w) = 100

\* results, errors and individual_progress as the holder of reply i sees them
Shown(objs, i) ==
    [results |-> objs[polled[i].ref].results,
     errors |-> objs[polled[i].ref].errors,
     individual_progress |-> objs[polled[i].ref].individual_progress]

\* C17: a get_batch_status result shows one fully applied state (its
\* processed_files counts the records of its results and errors), and its
\* results, errors and individual_progress do not change after the call
\* returned.
C17_Snapshot ==
    /\ [](\A i \in DOMAIN polled :
            Found(i) =>
                polled[i].processed_files
                    = Len(Shown(job, i).results) + Len(Shown(job, i).errors))
    /\ [][\A i \in DOMAIN polled : Found(i) => Shown(job', i) = Shown(job, i)]_vars

\* C18: in every get_batch_status result, progress equals processed_files /
\* total_files * 100 of the same result and lies between 0 and 100.
C18_ProgressOfResult ==
    \A i \in DOMAIN polled :
        Found(i) =>
            LET r == polled[i] IN
            /\ r.progress.num * r.total_files = r.processed_files * 100 * r.progress.den
            /\ 0 <= r.progress.num
            /\ r.progress.num <= 100 * r.progress.den

\* process_batch is past line 149 (create_batch_job returned)
PastCreate(b) == req[b].pc \in {"start", "returned"}

\* the supervising thread or a task of the batch exists
Launched(b) == sup[b].pc # "none" \/ TasksOf(b) # {}

\* C19 as stated: the job record exists when process_batch is past line 149
\* and when anything of the batch runs, and in the state process_batch
\* returns in, batch_jobs holds the record under the returned id.
C19_FoundAtReturn ==
    /\ [](\A b \in Batches : (PastCreate(b) \/ Launched(b)) => Created(b))
    /\ [][\A b \in Batches :
             (req[b].pc = "start" /\ req'[b].pc = "returned") => Registered(b)']_vars

\* C19 as amended: the job record exists when process_batch is past line
\* 149 and when anything of the batch runs, and from line 149 on batch_jobs
\* holds the record under the batch's id until a step of
\* cleanup_old_batches deletes it.
C19_CreatedFirst ==
    /\ [](\A b \in Batches : (PastCreate(b) \/ Launched(b)) => Created(b))
    /\ [][\A b \in Batches :
             /\ (req[b].pc = "create" /\ PastCreate(b)') => Registered(b)'
             /\ (Registered(b) /\ ~Registered(b)') => Deleting]_vars

\* process_batch returned the id of a batch of at least one item while no
\* task of the batch exists yet, and batch_jobs holds the record
C19_Witness ==
    \E b \in Batches :
        /\ req[b].pc = "returned" /\ Len(Files(b)) >= 1
        /\ TasksOf(b) = {}
        /\ job[b].processed_files = 0
        /\ Registered(b)

\* the tasks of batch b that a pool thread is running
RunningOf(b) == {w \in TasksOf(b) : Running(w)}

\* C20: the number of items of a batch that are processed at the same time
\* is at most min(N, MAX_BATCH_WORKERS), N the number of items of the batch.
C20_PoolBound ==
    \A b \in Batches :
        Cardinality(RunningOf(b)) <= Min(Len(Files(b)), MAX_BATCH_WORKERS)

\* MAX_BATCH_WORKERS items of a larger batch are processed at the same time
\* while another item waits in the queue of the pool
C20_Witness ==
    \E b \in Batches :
        /\ Len(Files(b)) > MAX_BATCH_WORKERS
        /\ Cardinality(RunningOf(b)) = MAX_BATCH_WORKERS
        /\ \E w \in TasksOf(b) : wk[w].line = "queued"

\* file.read() raised in the loop of the supervising thread of batch b, for
\* the item sup[b].next
ReadFailed(b) == sup[b].pc \in {"unwind", "dead"} /\ Len(Files(b)) >= 1

\* C21: when file.read() failed for an item and the supervising thread has
\* ended, the item has a record in errors, every other item of the batch
\* was dispatched, and the batch is 'completed'.
C21_ReadFailureRecorded ==
    \A b \in Batches :
        (ReadFailed(b) /\ sup[b].pc = "dead") =>
            /\ Cardinality(Records(job[b].errors, Files(b)[sup[b].next].filename)) = 1
            /\ \A i \in DOMAIN Files(b) : i # sup[b].next => <<b, i>> \in DOMAIN wk
            /\ job[b].status = "completed"

\* C22: every item handed to process_single_image makes exactly one
\* terminal report: it does not end without having made the call of line
\* 128 or of line 134, and after it made the call of line 128 it does not
\* make the call of line 134.
C22_OneTerminalReport ==
    [][\A w \in DOMAIN wk :
          /\ (~Finished(w) /\ Finished(w)') => InTerminalCall(w)
          /\ wk[w].line = "L128" => wk'[w].line # "L134"]_vars

\* C23: each item of a batch is dispatched to the pool exactly once: a task
\* that was dispatched is not queued again and a finished task stays as it
\* is, and when the supervising thread has ended every item was dispatched.
C23_DispatchedOnce ==
    /\ [][\A w \in DOMAIN wk :
             /\ w \in DOMAIN wk'
             /\ wk'[w].line = "queued" => wk[w].line = "queued"
             /\ Finished(w) => wk'[w] = wk[w]]_vars
    /\ [](\A b \in Batches :
             sup[b].pc \in {"done", "dead"} =>
                \A i \in DOMAIN Files(b) : <<b, i>> \in DOMAIN wk)

\* C24: the age of a completed job being current_time minus its completion
\* time and the age of any other job current_time minus its start time, a
\* sweep selects for eviction every job whose age exceeds max_age and no
\* job that completed before the sweep read the clock and whose age is less
\* than max_age.
C24_AgeByCompletion ==
    [][\A s \in Sweepers : \A i \in DOMAIN batch_jobs :
          (/\ cl[s].pc = "209" /\ cl'[s].pc = "209"
           /\ batch_jobs[i].key \in cl'[s].seen \ cl[s].seen) =>
             LET j == job[batch_jobs[i].val]
                 from == IF j.end_time # Absent THEN j.end_time ELSE j.start_time
                 age == cl[s].current_time - from
             IN  /\ age > cl[s].max_age => cl'[s].rm # cl[s].rm
                 /\ (0 <= age /\ age < cl[s].max_age) => cl'[s].rm = cl[s].rm]_vars

\* C25: every job that is in batch_jobs and older than the threshold (here:
\* started before the present clock reading) is eventually removed from
\* batch_jobs, without any request asking for it.
C25_EventuallyEvicted ==
    \A b \in Batches :
        (Registered(b) /\ IsOld(now, job[b].start_time, 0)) ~> ~Registered(b)

\* the record of batch b was created and batch_jobs no longer holds it
Evicted(b) == Created(b) /\ ~Has(batch_jobs, BatchId(b))

\* C26: a step of a worker of an evicted batch leaves batch_jobs as it is,
\* no step puts the record of an evicted batch back, and the supervising
\* thread that waits for the workers ends without an exception, whatever
\* the workers of an evicted batch raised.
C26_EvictedNoOp ==
    [][\A b \in Batches :
          /\ (Evicted(b) /\ \E w \in TasksOf(b) : wk'[w] # wk[w]) => batch_jobs' = batch_jobs
          /\ Evicted(b) => Evicted(b)'
          /\ sup[b].pc = "wait" => sup'[b].pc \in {"wait", "done"}]_vars

\* the record was evicted between line 43 and line 46 of a worker's call:
\* the task ended with the KeyError, the supervising thread ended normally
C26_Witness ==
    \E w \in DOMAIN wk :
        /\ Evicted(w[1])
        /\ wk[w].line = "raised" /\ wk[w].err = "KeyError"
        /\ sup[w[1]].pc = "done"

\* C27: every get_batch_status call returns a snapshot of the job or the
\* not-found result, also when the id is evicted while the call runs: no
\* call ends with an exception.
C27_StatusNeverRaises ==
    \A i \in DOMAIN polled : "raised" \notin DOMAIN polled[i]

\* C28: evicting an id is a no-op without error when the id is already
\* absent: the del of line 214 never raises, also in a sweep that selected
\* an id which an overlapping sweep deleted before.
C28_EvictIdempotent ==
    [][\A s \in Sweepers :
          (cl[s].pc = "213" /\ cl[s].rm # <<>>) => cl'[s].pc # "raised"]_vars

\* C29: an id leaves batch_jobs only in a deleting step of
\* cleanup_old_batches: the step in which an id leaves is no step of
\* process_batch, of a worker (process_single_image, update_batch_progress)
\* or of get_batch_status, and the ids that stay keep their records.
C29_OnlySweepRemoves ==
    [][\A id \in Keys(batch_jobs) :
          IF id \in Keys(batch_jobs')
          THEN Lookup(batch_jobs', id) = Lookup(batch_jobs, id)
          ELSE /\ Deleting
               /\ req' = req /\ sup' = sup /\ wk' = wk
               /\ poll' = poll /\ polled' = polled]_vars

\* every task of a batch ended, a get_batch_status call returned its
\* 'completed' status, and batch_jobs still holds the record
C29_Witness ==
    \E i \in DOMAIN polled :
        /\ Found(i) /\ polled[i].status = "completed"
        /\ Has(batch_jobs, polled[i].id)
        /\ \E b \in Batches :
              /\ Registered(b) /\ BatchId(b) = polled[i].id
              /\ sup[b].pc = "done"
              /\ \A w \in TasksOf(b) : Finished(w)

\* C30: the record a create_batch_job call has just stored under the id of
\* the batch has status 'processing', processed_files 0, progress 0, no
\* results, no errors, no individual_progress entry, and total_files equal
\* to the number of items of the request.
C30_FreshJob ==
    [][\A b \in Batches :
          (req[b].pc = "create" /\ req'[b].pc = "start") =>
             LET j == job'[Lookup(batch_jobs', BatchId(b))] IN
             /\ Has(batch_jobs', BatchId(b))
             /\ j.status = "processing"
             /\ j.processed_files = 0
             /\ j.progress.num = 0
             /\ Len(j.results) = 0
             /\ Len(j.errors) = 0
             /\ DOMAIN j.individual_progress = {}
             /\ j.total_files = Len(req[b].files)]_vars

\* create_batch_job has just returned for a request of several items:
\* nothing of the batch runs yet
C30_Witness ==
    \E b \in Batches :
        /\ req[b].pc = "start"
        /\ Len(req[b].files) > 1
        /\ Registered(b)
        /\ job[b].total_files = Len(req[b].files)
        /\ ~Launched(b)

\* C31: total_files and start_time of a job record never change once the
\* record is created: no step of a worker's progress or terminal report and
\* no step of a get_batch_status call writes them.
C31_FixedAtCreation ==
    [][\A b \in Batches :
          Created(b) =>
             /\ job'[b].total_files = job[b].total_files
             /\ job'[b].start_time = job[b].start_time]_vars

\* a get_batch_status call returned the 'completed' status of a job that
\* was completed later than it was started
C31_Witness ==
    \E i \in DOMAIN polled :
        /\ Found(i) /\ polled[i].status = "completed"
        /\ job[polled[i].ref].end_time > job[polled[i].ref].start_time
        /\ job[polled[i].ref].total_files = Len(Files(polled[i].ref))

\* C32: every key of individual_progress is the filename of an item of the
\* batch that a pool thread has started to process, and every value of
\* individual_progress lies between 0 and 100.
C32_StartedItemsInRange ==
    \A b \in Batches :
        Created(b) =>
            \A k \in DOMAIN job[b].individual_progress :
                /\ \E w \in TasksOf(b) : Filename(w) = k /\ wk[w].line # "queued"
                /\ 0 <= job[b].individual_progress[k]
                /\ job[b].individual_progress[k] <= 100

\* the item of one batch has made its last report and has its entry, the
\* item of another batch waits in the queue of its pool and has none
C32_Witness ==
    \E v, w \in DOMAIN wk :
        /\ v[1] # w[1] /\ Registered(v[1]) /\ Registered(w[1])
        /\ wk[v].line = "returned" /\ ItemProgress(v) = 100
        /\ wk[w].line = "queued" /\ DOMAIN job[w[1]].individual_progress = {}

\* C33: a step of a worker of batch A (any step of its update_batch_progress
\* calls included) leaves the record of every other batch as it is, and the
\* record a worker holds is the one of its own batch.
C33_BatchesApart ==
    /\ [][\A w \in DOMAIN wk :
             wk'[w] # wk[w] => \A b \in Batches \ {w[1]} : job'[b] = job[b]]_vars
    /\ [](\A w \in DOMAIN wk : wk[w].job \in {0, w[1]})

\* the workers of two batches ran at the same time, and each batch counts
\* and records its own item
C33_Witness ==
    \E v, w \in DOMAIN wk :
        /\ v[1] # w[1]
        /\ wk[v].line = "L128" /\ wk[v].upc = "57"
        /\ wk[w].line = "returned"
        /\ job[v[1]].processed_files = 1 /\ Len(job[v[1]].results) = 0
        /\ job[w[1]].processed_files = 1 /\ Records(job[w[1]].results, Filename(w)) # {}

\* C34: when the items of a batch share one filename and every task of the
\* batch has ended, the batch is 'completed' with processed_files equal to
\* total_files, results and errors hold one record per item, and
\* individual_progress holds the single entry of the shared filename.
C34_SharedNameCounted ==
    \A b \in Batches :
        (/\ sup[b].pc = "done"
         /\ \A i, k \in DOMAIN Files(b) : Files(b)[i].filename = Files(b)[k].filename) =>
            /\ job[b].status = "completed"
            /\ job[b].processed_files = job[b].total_files
            /\ Len(job[b].results) + Len(job[b].errors) = Len(Files(b))
            /\ DOMAIN job[b].individual_progress = {Files(b)[1].filename}

\* C35: a sweep during which process_batch creates jobs finishes without
\* error: its loop over batch_jobs raises nothing, the ids it deletes are
\* those of jobs older than max_age by their start_time, and its steps
\* leave the fields of all job records as they are.
C35_SweepDuringCreate ==
    [][\A s \in Sweepers :
          /\ cl[s].pc = "209" => cl'[s].pc # "raised"
          /\ cl'[s] # cl[s] => job' = job
          /\ (cl[s].pc = "213" /\ batch_jobs' # batch_jobs) =>
                \A e \in {batch_jobs[i] : i \in DOMAIN batch_jobs} :
                    e.key \notin Keys(batch_jobs') =>
                        IsOld(cl[s].current_time, job[e.val].start_time, cl[s].max_age)]_vars

\* C37: when process_single_image has ended with an exception, the upload
\* file of the item is not in the upload folder (it was removed if it had
\* been written); when it has returned, the upload file is there and the
\* job record, while batch_jobs holds it, has the result record of the item.
C37_UploadRemovedOnFailure ==
    \A w \in DOMAIN wk :
        /\ wk[w].line = "raised" => ~wk[w].upload
        /\ wk[w].line = "returned" =>
              /\ wk[w].upload
              /\ Registered(w[1]) => Records(job[w[1]].results, Filename(w)) # {}

\* the get_model calls for a name that returned
Returned(name) == {t \in Callers : gm[t].pc = "done" /\ gm[t].name = name}

\* C39 as stated: the loader is called at most once for a name, and all
\* get_model calls for the name return the same instance.
C39_LoadedOnce ==
    \A name \in ModelNames :
        /\ Cardinality(LoadsOf(name)) <= 1
        /\ \A t, u \in Returned(name) : gm[t].ret = gm[u].ret

\* C39 as amended: at most one call of the loader for a name returns a
\* model, the loader is called for a name only while the cache holds no
\* model of the name and by the holder of the lock only, and all get_model
\* calls for the name that return, return that one model, which the cache
\* holds.
C39_CachedOnce ==
    /\ [](\A name \in ModelNames :
             /\ Cardinality(Loaded(name)) <= 1
             /\ \A t \in Returned(name) :
                   /\ name \in DOMAIN model_cache
                   /\ gm[t].ret = model_cache[name]
                   /\ \E i \in Loaded(name) : gm[t].ret = Instance(name, i))
    /\ [][loads' # loads =>
             /\ loads'[Len(loads')].name \notin DOMAIN model_cache
             /\ model_lock # 0 /\ gm[model_lock].pc = "25"]_vars

\* a loader call for a name raised, a later call loaded the model, and two
\* get_model calls for the name returned
C39_Witness ==
    \E name \in ModelNames :
        /\ Cardinality(LoadsOf(name)) = 2 /\ Cardinality(Loaded(name)) = 1
        /\ Cardinality(Returned(name)) = 2
        /\ \E t \in Callers : gm[t].pc = "raised" /\ gm[t].name = name

\* the request carries the header in the form 'Bearer <token>' with the
\* configured token
BearerOf(expected) == <<"Bearer", " ">> \o expected

\* C38: the wrapped handler runs if API_REQUIRE_AUTH is false or the header
\* is there and its value is 'Bearer ' followed by API_BEARER_TOKEN, and
\* only then; in every other case the handler does not run and the response
\* is 401.
C38_BearerOnly ==
    http.pc = "authorized" =>
        IF \/ ~http.require_auth
           \/ http.header.present /\ http.header.value = BearerOf(http.expected)
        THEN http.ran
        ELSE ~http.ran /\ http.status = 401

\* authentication is required and the handler ran for a request with the
\* token of two characters
C38_Witness ==
    /\ http.pc = "authorized"
    /\ http.require_auth /\ http.ran
    /\ Len(http.expected) = MaxToken

\* the named files of the request that fail validation, and the files that
\* yield a valid file
InvalidFiles(request) ==
    {i \in DOMAIN request.files : request.files[i] \in {"bad_image", "bad_zip", "zip_raise"}}
YieldingFiles(request) ==
    {i \in DOMAIN request.files : request.files[i] \in {"image", "zip1"}}

\* C36: process_batch is called (a job record or a supervising thread
\* exists) only for a request without an invalid file and with a valid one;
\* the response to a request with an invalid file or without a valid file is
\* 400, and then process_batch was not called.
C36_OnlyValidBatches ==
    http.pc \in {"219", "answered"} =>
        LET good == InvalidFiles(http.request) = {} /\ YieldingFiles(http.request) # {}
            called == req[1].pc # "idle" \/ Created(1) \/ sup[1].pc # "none"
        IN  /\ called => good
            /\ (http.pc = "answered" /\ ~good) => (http.status = 400 /\ ~called)

====
